---------------------------- MODULE Spec2Model ----------------------------
(*
  Points / streak / achievement bookkeeping of the Gujarati learning app.

  Record store (PostgreSQL behind Supabase):
    profiles              one row of the user: points, current_streak, last_login_date
    daily_logins          rows (user_id, login_date), UNIQUE(user_id, login_date)
    achievement_progress  rows (user_id, achievement_type), UNIQUE on the pair

  Operations:
    handle_daily_login    plpgsql function: one transaction per call, READ COMMITTED
    trackActivity         client hook: one autocommitted statement per await
    handleSubmitQuiz      client handler: attempt insert, points read-modify-write,
                          then trackActivity('quiz')
    AuthProvider          effect that calls handleDailyLogin when the auth state has a
                          user and has finished loading

  Several client sessions (tabs, devices) of the same user run concurrently; every
  await is a separate step, and every store round trip may fail.
*)
EXTENDS Integers, Sequences, FiniteSets, TLC

(***************************************************************************)
(* Bounds of the model                                                     *)
(***************************************************************************)
NumSessions == 2    \* concurrent client sessions of the user
MaxOps == 2         \* operations started, in total, when every operation is allowed
MaxLogins == 2      \* handle_daily_login calls made, in total, when only logins run
MaxCalls == 32      \* trackActivity calls of the one session that runs them in sequence
MaxDay == 2         \* the server clock runs over the days 0..MaxDay
MaxCorrect == 1     \* questions of a quiz answered correctly for the first time
MaxMissed == 1      \* days without a login of the user who logs in day after day
MaxUserObjects == 2 \* user objects the auth hook hands out for the signed-in user
MaxSeconds == 2     \* seconds left on the quiz timer when the page is first looked at

(***************************************************************************)
(* Program constants                                                       *)
(***************************************************************************)
BasePoints == 10
StreakBonus == 40
StreakBonusDay == 30
QuizThreshold == 30
GameThreshold == 50
MilestoneBonus == 50
PointsPerQuestion == 10

Sessions == 1..NumSessions
ActivityTypes == {"quiz", "game"}

(***************************************************************************)
(* Nullable values: SQL NULL / JS null is the empty tuple, a value v is    *)
(* <<v>>.                                                                  *)
(***************************************************************************)
Null == <<>>
Some(v) == <<v>>

\* COALESCE(x, d) in SQL; (x || d) in JS for numbers, where 0 and null both give d = 0.
Coalesce(x, d) == IF x = Null THEN d ELSE x[1]

\* SQL "a = b" used as an IF condition: NULL on either side is not true.
SqlEq(a, b) == a # Null /\ b # Null /\ a[1] = b[1]

VARIABLES
  today,                 \* CURRENT_DATE of the server
  profile,               \* the user's profiles row
  daily_logins,          \* login_date -> number of committed daily_logins rows of the user
  achievement_progress,  \* achievement_type -> row
  sess,                  \* client session -> position and locals of its running call
  ghost                  \* history: what was credited, and by which operation

vars == <<today, profile, daily_logins, achievement_progress, sess, ghost>>
dbVars == <<profile, daily_logins, achievement_progress>>

NoResult ==
  [status |-> "none", at |-> "", points_earned |-> 0, streak_count |-> 0,
   is_new_login |-> FALSE]
\* The RPC came back with an error: the store was unavailable, or the function raised
\* unique_violation.
Unavailable(pc) == [NoResult EXCEPT !.status = "unavailable", !.at = pc]
Conflict == [NoResult EXCEPT !.status = "conflict", !.at = "dl_insert"]

NullProfile == [current_streak |-> Null, last_login_date |-> Null]
NoRow == [exists |-> FALSE, current_count |-> 0, bonus_claimed |-> FALSE]

\* The locals of a call; a session that runs no call holds these.
IdleLocals ==
  [pc |-> "idle", today_date |-> 0, current_profile |-> NullProfile, new_streak |-> 0,
   points_to_add |-> 0, pending |-> FALSE,
   activityType |-> "quiz", currentProgress |-> Null, newCount |-> 0, bonusPoints |-> 0,
   readPoints |-> Null, currentScore |-> 0, startClaimed |-> FALSE, startExisting |-> FALSE,
   caller |-> "self", inQuiz |-> FALSE]

Locals == DOMAIN IdleLocals

\* The operations the sessions in S have started.
RECURSIVE SumOps(_)
SumOps(S) ==
  IF S = {} THEN 0
  ELSE LET s == CHOOSE x \in S : TRUE IN sess[s].ops + SumOps(S \ {s})

Started == SumOps(Sessions)

\* sess[s] with the call's locals reset, keeping what outlives the call.
Finish(r) == [f \in DOMAIN r |-> IF f \in Locals THEN IdleLocals[f] ELSE r[f]]

\* What the last handler that returned handed to its caller: undefined (null here)
\* or, from handleDailyLogin, the result row.
NoReturn == [by |-> "", value |-> Null]
HandlerOf(pc) ==
  IF pc \in {"dl_check", "dl_already", "dl_profile", "dl_insert", "dl_update"}
  THEN "handleDailyLogin"
  ELSE IF pc \in {"qz_insert", "qz_read", "qz_write"} THEN "handleSubmitQuiz"
  ELSE "trackActivity"

\* A store request of the running call has failed (history of the call).
Failed(r, fail) == [r EXCEPT !.failed = @ \/ fail]

\* throw: an exception is on its way up from the await that failed.
Thrown(r) == [r EXCEPT !.raised = TRUE]

Caught_NoTry(r) == Finish([r EXCEPT !.returned = [by |-> HandlerOf(r.pc), value |-> Null]])

\* catch (error) { console.error(...) }: the exception ends in the handler's own
\* catch block and the handler returns undefined to its caller.
Caught(r) ==
  Finish([r EXCEPT !.raised = FALSE,
                   !.returned = [by |-> HandlerOf(r.pc), value |-> Null]])

ShowsBanner_Always(result) == TRUE

\* if (result.is_new_login && result.points_earned > 0) toast(...)
ShowsBanner(result) == result.is_new_login /\ result.points_earned > 0

\* handleDailyLogin after the RPC came back with data: setLoginStreak, the reward
\* toast, return result.
HandleResult(r, result) ==
  Finish([r EXCEPT !.result = result,
                   !.returned = [by |-> "handleDailyLogin", value |-> Some(result)],
                   !.loginStreak = result.streak_count,
                   !.banner = IF ShowsBanner(result) THEN <<result.points_earned>>
                              ELSE <<>>])

\* handleDailyLogin after the RPC came back with an error: if (error) throw error.
HandleError(r, result) == Caught(Thrown([r EXCEPT !.result = result]))

(***************************************************************************)
(* handle_daily_login: the pure steps                                      *)
(***************************************************************************)
NewStreak_NoReset(cp, today_date) == Coalesce(cp.current_streak, 0) + 1

\* Calculate new streak
NewStreak(cp, today_date) ==
  IF SqlEq(cp.last_login_date, Some(today_date - 1))
  THEN Coalesce(cp.current_streak, 0) + 1
  ELSE 1

PointsToAdd_AtLeast(new_streak) ==
  IF new_streak >= StreakBonusDay THEN BasePoints + StreakBonus ELSE BasePoints

\* Check for 30-day streak bonus
PointsToAdd(new_streak) ==
  IF new_streak = StreakBonusDay THEN BasePoints + StreakBonus ELSE BasePoints

(***************************************************************************)
(* Initial states                                                          *)
(***************************************************************************)
Days == 0..MaxDay
FirstDay == 0 - (2 * StreakBonusDay + 2)
AllDates == FirstDay..MaxDay

\* daily_logins with one more row of login_date d.
AddRow(rows, d) == [rows EXCEPT ![d] = @ + 1]

\* Streaks a user can have built before the first day of the model: none, short ones,
\* and the ones around the 30-day bonus.
InitStreaks == {0, 1, 5, StreakBonusDay - 2, StreakBonusDay - 1, StreakBonusDay}

\* The profile and login records after s consecutive daily logins that ended on day
\* last (every one of them made by handle_daily_login).
History(s, last) ==
  [profile |-> [exists |-> TRUE, points |-> Some(BasePoints * s
                                     + (IF s >= StreakBonusDay THEN StreakBonus ELSE 0)),
                current_streak |-> Some(s),
                last_login_date |-> IF s = 0 THEN Null ELSE Some(last)],
   daily_logins |-> [d \in AllDates |-> IF last - s + 1 <= d /\ d <= last THEN 1 ELSE 0]]

\* What useAuthProvider() returns: the user object (null when signed out) and the
\* loading flag. A user object is named by its number: two objects of the same user
\* are two values for React's comparison of effect dependencies.
SignedIn == [user |-> Some(1), loading |-> FALSE]
Loading == [user |-> Null, loading |-> TRUE]
AuthStates == [user : {Null} \cup {Some(o) : o \in 1..MaxUserObjects}, loading : BOOLEAN]

\* [auth.user, auth.loading]
EffectDeps(auth) == <<auth.user, auth.loading>>

\* A session whose user is signed in and whose login effect has run.
InitSess ==
  [s \in Sessions |->
     IdleLocals @@ [ops |-> 0, result |-> NoResult, loginStreak |-> 0, banner |-> Null,
                    raised |-> FALSE, failed |-> FALSE, returned |-> NoReturn,
                    auth |-> SignedIn, deps |-> Some(EffectDeps(SignedIn)),
                    achievementProgress |-> [t \in ActivityTypes |-> NoRow],
                    page |-> s, selectedQuiz |-> FALSE, timeRemaining |-> 0]]

InitGhost(p) ==
  [points0 |-> Coalesce(p.points, 0),
   credited |-> 0,
   loginCommits |-> [d \in AllDates |-> 0],
   streakBonuses |-> 0,
   count0 |-> [t \in ActivityTypes |-> achievement_progress[t].current_count],
   tracked |-> [t \in ActivityTypes |-> 0],
   quizAttempts |-> 0, quizCredits |-> 0, quizTracks |-> 0,
   bonusAwards |-> [t \in ActivityTypes |-> 0]]

InitLogin ==
  /\ today = 0
  /\ \E s \in InitStreaks, gap \in {1, 2} :
       /\ profile = History(s, today - gap).profile
       /\ daily_logins = History(s, today - gap).daily_logins
  /\ achievement_progress = [t \in ActivityTypes |-> NoRow]
  /\ sess = InitSess
  /\ ghost = InitGhost(profile)

(***************************************************************************)
(* The server clock                                                        *)
(***************************************************************************)
Tick ==
  /\ today < MaxDay
  /\ today' = today + 1
  /\ UNCHANGED <<dbVars, sess, ghost>>

(***************************************************************************)
(* handle_daily_login(user_id_param): one transaction                      *)
(***************************************************************************)
LoginPcs == {"dl_check", "dl_already", "dl_profile", "dl_insert", "dl_update"}

\* supabase.rpc('handle_daily_login'): the transaction starts; CURRENT_DATE is the
\* date of the transaction's start for all of its statements.
BeginLogin(r) ==
  [r EXCEPT !.pc = "dl_check", !.ops = @ + 1, !.today_date = today,
            !.result = NoResult, !.banner = Null, !.failed = FALSE,
            !.startExisting = daily_logins[today] > 0]

DL_Begin(s, budget) ==
  /\ sess[s].pc = "idle"
  /\ Started < budget
  /\ sess' = [sess EXCEPT ![s] = BeginLogin(@)]
  /\ UNCHANGED <<today, dbVars, ghost>>

\* Who calls the function for this user: the user (auth.uid() = user_id_param) or
\* another authenticated user who passes this user's id as user_id_param.
Callers == {"self", "other"}

\* SECURITY DEFINER: the statements of the body run with the rights of the
\* function's owner, whatever the caller.
SecurityDefiner == TRUE

\* "Users can create their own daily logins": WITH CHECK (auth.uid() = user_id), for
\* the statements the policies of daily_logins bind.
InsertPermitted(caller) == SecurityDefiner \/ caller = "self"

\* The rpc as any authenticated client can send it; the body takes the user from
\* user_id_param and never reads auth.uid().
DL_BeginAs(s, caller, budget) ==
  /\ sess[s].pc = "idle"
  /\ Started < budget
  /\ sess' = [sess EXCEPT ![s] = BeginLogin([@ EXCEPT !.caller = caller])]
  /\ UNCHANGED <<today, dbVars, ghost>>

\* SELECT COUNT(*) ... WHERE user_id = user_id_param AND login_date = today_date:
\* the rows committed when the statement runs.
ExistingLoginCount(s) == daily_logins[sess[s].today_date]

AlreadyLoggedIn_NeverTaken(existing_login_count) == FALSE

\* IF existing_login_count > 0
AlreadyLoggedIn(existing_login_count) == existing_login_count > 0

DL_Check(s) ==
  /\ sess[s].pc = "dl_check"
  /\ sess' = [sess EXCEPT ![s].pc =
                 IF AlreadyLoggedIn(ExistingLoginCount(s)) THEN "dl_already" ELSE "dl_profile"]
  /\ UNCHANGED <<today, dbVars, ghost>>

\* RETURN QUERY SELECT 0, COALESCE(new_streak, 0), false
AlreadyResult(streak) ==
  [NoResult EXCEPT !.status = "ok", !.points_earned = 0,
                   !.streak_count = Coalesce(streak, 0), !.is_new_login = FALSE]

\* SELECT current_streak INTO new_streak; a missing profile leaves new_streak NULL.
DL_Already(s) ==
  /\ sess[s].pc = "dl_already"
  /\ sess' = [sess EXCEPT ![s] =
       HandleResult(@, AlreadyResult(IF profile.exists THEN profile.current_streak
                                     ELSE Null))]
  /\ UNCHANGED <<today, dbVars, ghost>>

\* SELECT * INTO current_profile; then new_streak and points_to_add are computed.
\* A missing profile leaves every field of current_profile NULL.
DL_Profile(s) ==
  /\ sess[s].pc = "dl_profile"
  /\ LET cp == IF profile.exists
               THEN [current_streak |-> profile.current_streak,
                     last_login_date |-> profile.last_login_date]
               ELSE NullProfile
         ns == NewStreak(cp, sess[s].today_date)
     IN sess' = [sess EXCEPT ![s] = [@ EXCEPT !.pc = "dl_insert", !.current_profile = cp,
                                              !.new_streak = ns,
                                              !.points_to_add = PointsToAdd(ns)]]
  /\ UNCHANGED <<today, dbVars, ghost>>

UniqueViolation_NoConstraint(s) == FALSE

\* UNIQUE(user_id, login_date): a committed row with the key makes the INSERT raise.
UniqueViolation(s) == daily_logins[sess[s].today_date] > 0

InsertWaits_Never(s) == FALSE

\* An uncommitted row with the key, inserted by another transaction, makes the INSERT
\* wait until that transaction commits or rolls back.
InsertWaits(s) ==
  \E o \in Sessions \ {s} : sess[o].pending /\ sess[o].today_date = sess[s].today_date

RolledBack_InsertKept(s) ==
  IF sess[s].pending THEN AddRow(daily_logins, sess[s].today_date) ELSE daily_logins

\* The function body runs in the transaction of its call: when the call fails, the
\* row it inserted is gone with it.
RolledBack(s) == daily_logins

\* INSERT INTO daily_logins (user_id, login_date) VALUES (user_id_param, today_date)
DL_Insert(s) ==
  /\ sess[s].pc = "dl_insert"
  /\ ~InsertWaits(s)
  /\ IF ~InsertPermitted(sess[s].caller)
     THEN sess' = [sess EXCEPT ![s] = HandleError(@, Unavailable(@.pc))]
     ELSE IF UniqueViolation(s)
     THEN sess' = [sess EXCEPT ![s] = HandleError(@, Conflict)]
     ELSE sess' = [sess EXCEPT ![s] = [@ EXCEPT !.pc = "dl_update", !.pending = TRUE]]
  /\ UNCHANGED <<today, dbVars, ghost>>

\* RETURN QUERY SELECT points_to_add, new_streak, true
NewLoginResult(s) ==
  [NoResult EXCEPT !.status = "ok", !.points_earned = sess[s].points_to_add,
                   !.streak_count = sess[s].new_streak, !.is_new_login = TRUE]

\* UPDATE profiles SET current_streak = new_streak, last_login_date = today_date,
\*   points = COALESCE(points, 0) + points_to_add WHERE user_id = user_id_param
\* The row is locked and its latest committed version is updated; with no profile
\* row the UPDATE changes nothing and raises nothing.
UpdatedProfile(s) ==
  IF profile.exists
  THEN [profile EXCEPT !.current_streak = Some(sess[s].new_streak),
                       !.last_login_date = Some(sess[s].today_date),
                       !.points = Some(Coalesce(@, 0) + sess[s].points_to_add)]
  ELSE profile

\* The UPDATE, the RETURN and the commit of the transaction.
DL_Update(s) ==
  /\ sess[s].pc = "dl_update"
  /\ profile' = UpdatedProfile(s)
  /\ daily_logins' = AddRow(daily_logins, sess[s].today_date)
  /\ sess' = [sess EXCEPT ![s] = HandleResult(@, NewLoginResult(s))]
  /\ ghost' = [ghost EXCEPT
       !.credited = IF profile.exists THEN @ + sess[s].points_to_add ELSE @,
       !.streakBonuses =
          IF profile.exists /\ sess[s].points_to_add = BasePoints + StreakBonus
          THEN @ + 1 ELSE @,
       !.loginCommits[sess[s].today_date] = IF profile.exists THEN @ + 1 ELSE @]
  /\ UNCHANGED <<today, achievement_progress>>

\* The store fails, or the connection drops, while the function runs: the
\* transaction rolls back and the RPC returns an error.
DL_Fail(s) ==
  /\ sess[s].pc \in LoginPcs
  /\ sess' = [sess EXCEPT ![s] = HandleError(Failed(@, TRUE), Unavailable(sess[s].pc))]
  /\ daily_logins' = RolledBack(s)
  /\ UNCHANGED <<today, profile, achievement_progress, ghost>>

LoginStep(s) ==
  \/ DL_Check(s)
  \/ DL_Already(s)
  \/ DL_Profile(s)
  \/ DL_Insert(s)
  \/ DL_Update(s)

NextLogin ==
  \/ Tick
  \/ \E s \in Sessions : DL_Begin(s, MaxLogins)
  \/ \E s \in Sessions : LoginStep(s) \/ DL_Fail(s)

SpecLogin == InitLogin /\ [][NextLogin]_vars

\* Daily logins for one user, sent by the user's own client or by another
\* authenticated user's; no call fails.
NextForeign ==
  \/ Tick
  \/ \E s \in Sessions, caller \in Callers : DL_BeginAs(s, caller, MaxLogins)
  \/ \E s \in Sessions : LoginStep(s)

SpecForeign == InitLogin /\ [][NextForeign]_vars

\* A new user who opens the app day after day, from the first day on, missing at
\* most MaxMissed days, and once opening it a second time on a day; no call fails.
InitStreak ==
  /\ today = FirstDay
  /\ profile = History(0, today - 1).profile
  /\ daily_logins = History(0, today - 1).daily_logins
  /\ achievement_progress = [t \in ActivityTypes |-> NoRow]
  /\ sess = InitSess
  /\ ghost = InitGhost(profile)

\* The days up to today on which the user did not log in.
Missed == {d \in FirstDay..today : daily_logins[d] = 0}

NextDay ==
  /\ sess[1].pc = "idle"
  /\ daily_logins[today] > 0 \/ Cardinality(Missed) <= MaxMissed
  /\ Tick

\* The days up to today on which the user logged in.
LoggedIn == {d \in FirstDay..today : daily_logins[d] > 0}

DailyLogin ==
  /\ daily_logins[today] = 0 \/ sess[1].ops = Cardinality(LoggedIn)
  /\ DL_Begin(1, 2 * (MaxDay - FirstDay + 1))

NextStreak ==
  \/ NextDay
  \/ DailyLogin
  \/ LoginStep(1)

SpecStreak == InitStreak /\ [][NextStreak]_vars

\* A user identifier with no profiles row and no login yet (daily_logins.user_id
\* references nothing, so the function runs for it all the same).
NoProfile ==
  [exists |-> FALSE, points |-> Null, current_streak |-> Null, last_login_date |-> Null]

InitNoProfile ==
  /\ today = 0
  /\ profile = NoProfile
  /\ daily_logins = [d \in AllDates |-> 0]
  /\ achievement_progress = [t \in ActivityTypes |-> NoRow]
  /\ sess = InitSess
  /\ ghost = InitGhost(profile)

SpecNoProfile == InitNoProfile /\ [][NextLogin]_vars

(***************************************************************************)
(* AuthProvider: the effect that calls handleDailyLogin                    *)
(***************************************************************************)
\* The app has just been opened in every session: the auth hook is still loading
\* and AuthProvider has not rendered yet.
InitAuth ==
  /\ today = 0
  /\ profile = History(StreakBonusDay - 1, today - 1).profile
  /\ daily_logins = History(StreakBonusDay - 1, today - 1).daily_logins
  /\ achievement_progress = [t \in ActivityTypes |-> NoRow]
  /\ sess = [s \in Sessions |-> [InitSess[s] EXCEPT !.auth = Loading, !.deps = Null]]
  /\ ghost = InitGhost(profile)

\* The auth hook's state changes (the stored session is loaded, the user signs in,
\* the identity provider refreshes the session): once a user is signed in, a user
\* stays signed in. The session is between two calls and its effects have run.
AuthChange(s, auth) ==
  /\ sess[s].pc = "idle"
  /\ sess[s].deps = Some(EffectDeps(sess[s].auth))
  /\ auth # sess[s].auth
  /\ sess[s].auth.user # Null => auth.user # Null
  /\ sess' = [sess EXCEPT ![s].auth = auth]
  /\ UNCHANGED <<today, dbVars, ghost>>

\* useEffect(..., [auth.user, auth.loading]): React runs the effect after the first
\* render, and after a render in which a dependency is not the value it was.
EffectRuns(deps, auth) == deps # Some(EffectDeps(auth))

\* A render of AuthProvider in which the effect runs:
\* if (auth.user && !auth.loading) handleDailyLogin()
AP_Effect(s, budget) ==
  /\ sess[s].pc = "idle"
  /\ EffectRuns(sess[s].deps, sess[s].auth)
  /\ LET r == [sess[s] EXCEPT !.deps = Some(EffectDeps(sess[s].auth))]
     IN IF sess[s].auth.user # Null /\ ~sess[s].auth.loading
        THEN /\ Started < budget
             /\ sess' = [sess EXCEPT ![s] = BeginLogin(r)]
        ELSE sess' = [sess EXCEPT ![s] = r]
  /\ UNCHANGED <<today, dbVars, ghost>>

\* A render of AuthProvider with the dependencies it had: the effect is skipped.
AP_Render(s) ==
  /\ sess[s].pc = "idle"
  /\ ~EffectRuns(sess[s].deps, sess[s].auth)
  /\ UNCHANGED vars

NextAuth ==
  \/ Tick
  \/ \E s \in Sessions, auth \in AuthStates : AuthChange(s, auth)
  \/ \E s \in Sessions : AP_Effect(s, MaxLogins)
  \/ \E s \in Sessions : AP_Render(s)
  \/ \E s \in Sessions : LoginStep(s)

SpecAuth == InitAuth /\ [][NextAuth]_vars

(***************************************************************************)
(* trackActivity(activityType): one store round trip per await             *)
(***************************************************************************)
Row(count, claimed) == [exists |-> TRUE, current_count |-> count, bonus_claimed |-> claimed]

\* What .select(...).single() hands back as data: null when the request fails or no
\* row matches, the row otherwise.
SelectSingle(row, fail) == IF fail \/ ~row.exists THEN Null ELSE Some(row)

\* (currentProgress?.current_count || 0) + 1
NewCount(currentProgress) ==
  (IF currentProgress = Null THEN 0 ELSE currentProgress[1].current_count) + 1

\* currentProgress?.bonus_claimed, as a condition
ReadClaimed(currentProgress) ==
  IF currentProgress = Null THEN FALSE ELSE currentProgress[1].bonus_claimed

BonusFor_IgnoreClaimed(activityType, newCount, currentProgress) ==
  IF activityType = "quiz" /\ newCount = QuizThreshold THEN MilestoneBonus
  ELSE IF activityType = "game" /\ newCount = GameThreshold THEN MilestoneBonus
  ELSE 0

BonusFor_ThresholdsSwapped(activityType, newCount, currentProgress) ==
  IF activityType = "quiz" /\ newCount = GameThreshold /\ ~ReadClaimed(currentProgress)
  THEN MilestoneBonus
  ELSE IF activityType = "game" /\ newCount = QuizThreshold
          /\ ~ReadClaimed(currentProgress)
  THEN MilestoneBonus
  ELSE 0

BonusFor_FromThreshold(activityType, newCount, currentProgress) ==
  IF activityType = "quiz" /\ newCount >= QuizThreshold /\ ~ReadClaimed(currentProgress)
  THEN MilestoneBonus
  ELSE IF activityType = "game" /\ newCount >= GameThreshold
          /\ ~ReadClaimed(currentProgress)
  THEN MilestoneBonus
  ELSE 0

\* Check for milestone bonuses
BonusFor(activityType, newCount, currentProgress) ==
  IF activityType = "quiz" /\ newCount = QuizThreshold /\ ~ReadClaimed(currentProgress)
  THEN MilestoneBonus
  ELSE IF activityType = "game" /\ newCount = GameThreshold
          /\ ~ReadClaimed(currentProgress)
  THEN MilestoneBonus
  ELSE 0

\* The call starts: its locals, and whether the bonus was already claimed then.
EnterTrack(r, activityType) ==
  [r EXCEPT !.pc = "ta_read", !.activityType = activityType, !.failed = FALSE,
            !.startClaimed = achievement_progress[activityType].bonus_claimed]

\* trackActivity has returned to handleSubmitQuiz, which goes on with
\* setSelectedQuiz(null) in the page it runs in; other callers do nothing more.
TrackReturned(ss, s) ==
  IF sess[s].inQuiz THEN [ss EXCEPT ![sess[s].page].selectedQuiz = FALSE] ELSE ss

TA_Begin(s, activityType, budget) ==
  /\ sess[s].pc = "idle"
  /\ Started < budget
  /\ sess' = [sess EXCEPT ![s] = EnterTrack([@ EXCEPT !.ops = @ + 1], activityType)]
  /\ UNCHANGED <<today, dbVars, ghost>>

\* Get current progress; the error of the read is not looked at.
TA_Read(s, fail) ==
  /\ sess[s].pc = "ta_read"
  /\ LET cp == SelectSingle(achievement_progress[sess[s].activityType], fail)
     IN sess' = [sess EXCEPT ![s] =
          [Failed(@, fail) EXCEPT !.pc = "ta_upsert", !.currentProgress = cp,
                                  !.newCount = NewCount(cp)]]
  /\ UNCHANGED <<today, dbVars, ghost>>

Upserted_WholeRow(row, newCount) == Row(newCount, FALSE)

\* upsert({user_id, achievement_type, current_count, last_updated}, onConflict):
\* inserts the row (bonus_claimed takes its default, false), or updates the named
\* columns of the existing one.
Upserted(row, newCount) ==
  IF row.exists THEN [row EXCEPT !.current_count = newCount] ELSE Row(newCount, FALSE)

\* Update progress, then check for milestone bonuses.
TA_Upsert(s, fail) ==
  /\ sess[s].pc = "ta_upsert"
  /\ IF fail
     THEN /\ sess' = TrackReturned([sess EXCEPT ![s] = Caught(Thrown(Failed(@, TRUE)))], s)
          /\ UNCHANGED <<achievement_progress, ghost>>
     ELSE LET t == sess[s].activityType
              bonus == BonusFor(t, sess[s].newCount, sess[s].currentProgress)
          IN /\ achievement_progress' =
                  [achievement_progress EXCEPT ![t] = Upserted(@, sess[s].newCount)]
             /\ ghost' = [ghost EXCEPT !.tracked[t] = @ + 1]
             /\ sess' = [sess EXCEPT ![s] =
                  [@ EXCEPT !.bonusPoints = bonus,
                            !.pc = IF bonus > 0 THEN "ta_profile" ELSE "ta_fetch"]]
  /\ UNCHANGED <<today, profile, daily_logins>>

\* What .select('points').single() gives as profile?.points: null when the request
\* fails, no row matches, or the column is NULL.
SelectPoints(fail) == IF fail \/ ~profile.exists THEN Null ELSE profile.points

\* Award bonus points: read the profile's points; the error is not looked at.
TA_Profile(s, fail) ==
  /\ sess[s].pc = "ta_profile"
  /\ sess' = [sess EXCEPT ![s] = [Failed(@, fail) EXCEPT !.pc = "ta_points",
                                                         !.readPoints = SelectPoints(fail)]]
  /\ UNCHANGED <<today, dbVars, ghost>>

\* .update({ points: (read?.points || 0) + delta }).eq('user_id', userId): the value
\* computed by the client replaces the stored one; no row, no change, no error.
PointsWritten(readPoints, delta) ==
  IF profile.exists THEN [profile EXCEPT !.points = Some(Coalesce(readPoints, 0) + delta)]
  ELSE profile

TA_Points(s, fail) ==
  /\ sess[s].pc = "ta_points"
  /\ IF fail
     THEN /\ sess' = TrackReturned([sess EXCEPT ![s] = Caught(Thrown(Failed(@, TRUE)))], s)
          /\ UNCHANGED <<profile, ghost>>
     ELSE /\ profile' = PointsWritten(sess[s].readPoints, sess[s].bonusPoints)
          /\ sess' = [sess EXCEPT ![s].pc = "ta_claim"]
          /\ ghost' = [ghost EXCEPT
               !.credited = IF profile.exists THEN @ + sess[s].bonusPoints ELSE @,
               !.bonusAwards[sess[s].activityType] = IF profile.exists THEN @ + 1 ELSE @]
  /\ UNCHANGED <<today, daily_logins, achievement_progress>>

\* Mark bonus as claimed: .update({ bonus_claimed: true }) on the pair's row.
TA_Claim(s, fail) ==
  /\ sess[s].pc = "ta_claim"
  /\ IF fail
     THEN /\ sess' = TrackReturned([sess EXCEPT ![s] = Caught(Thrown(Failed(@, TRUE)))], s)
          /\ UNCHANGED achievement_progress
     ELSE /\ achievement_progress' =
               [achievement_progress EXCEPT ![sess[s].activityType] =
                  IF @.exists THEN [@ EXCEPT !.bonus_claimed = TRUE] ELSE @]
          /\ sess' = [sess EXCEPT ![s].pc = "ta_fetch"]
  /\ UNCHANGED <<today, profile, daily_logins, ghost>>

\* fetchAchievementProgress(): setAchievementProgress(data || []) unless the read
\* fails; trackActivity returns.
TA_Fetch(s, fail) ==
  /\ sess[s].pc = "ta_fetch"
  /\ sess' = TrackReturned([sess EXCEPT ![s] =
       Finish([Failed(@, fail) EXCEPT
                 !.returned = [by |-> "trackActivity", value |-> Null],
                 !.achievementProgress = IF fail THEN @ ELSE achievement_progress])], s)
  /\ UNCHANGED <<today, dbVars, ghost>>

TrackStep(s, fail) ==
  \/ TA_Read(s, fail)
  \/ TA_Upsert(s, fail)
  \/ TA_Profile(s, fail)
  \/ TA_Points(s, fail)
  \/ TA_Claim(s, fail)
  \/ TA_Fetch(s, fail)

(***************************************************************************)
(* handleSubmitQuiz                                                        *)
(***************************************************************************)
\* currentScore: 10 per question answered correctly for the first time.
Scores == {k * PointsPerQuestion : k \in 0..MaxCorrect}

\* handleSubmitQuiz is called with a quiz selected: it goes to its insert.
BeginQuiz(r, score) ==
  [r EXCEPT !.pc = "qz_insert", !.ops = @ + 1, !.failed = FALSE,
            !.currentScore = score, !.inQuiz = TRUE]

\* The user starts a quiz (startQuiz: setSelectedQuiz(quiz)), answers it and presses
\* Submit before the time is up.
QZ_Begin(s, score, budget) ==
  /\ sess[s].pc = "idle"
  /\ Started < budget
  /\ sess' = [sess EXCEPT ![sess[s].page].selectedQuiz = TRUE,
                          ![s] = BeginQuiz(@, score)]
  /\ UNCHANGED <<today, dbVars, ghost>>

\* The page's one-second interval: at prev <= 1 the updater calls handleSubmitQuiz
\* and leaves timeRemaining at 0, else it counts down. The effect arms the interval
\* only while a quiz is selected and timeRemaining > 0. The invocation runs in
\* slot s, which holds no other call.
TimerTick(s, score, budget) ==
  LET p == sess[s].page
  IN /\ sess[p].selectedQuiz
     /\ sess[p].timeRemaining > 0
     /\ IF sess[p].timeRemaining <= 1
        THEN /\ sess[s].pc = "idle"
             /\ Started < budget
             /\ sess' = [sess EXCEPT ![p].timeRemaining = 0,
                                     ![s] = BeginQuiz(@, score)]
        ELSE /\ s = p
             /\ sess' = [sess EXCEPT ![p].timeRemaining = @ - 1]
     /\ UNCHANGED <<today, dbVars, ghost>>

\* <Button onClick={handleSubmitQuiz}>: rendered while a quiz is selected, and
\* never disabled; a click starts an invocation whatever else is running.
SubmitClicked(s, score, budget) ==
  /\ sess[sess[s].page].selectedQuiz
  /\ sess[s].pc = "idle"
  /\ Started < budget
  /\ sess' = [sess EXCEPT ![s] = BeginQuiz(@, score)]
  /\ UNCHANGED <<today, dbVars, ghost>>

\* insert into quiz_attempts; an error ends the handler in its catch.
QZ_Insert(s, fail) ==
  /\ sess[s].pc = "qz_insert"
  /\ sess' = [sess EXCEPT ![s] =
       IF fail THEN Caught(Thrown(Failed(@, TRUE)))
       ELSE IF sess[s].currentScore > 0 THEN [@ EXCEPT !.pc = "qz_read"]
       ELSE EnterTrack(@, "quiz")]
  /\ ghost' = IF fail THEN ghost
              ELSE [ghost EXCEPT !.quizAttempts = @ + 1,
                                 !.quizTracks = IF sess[s].currentScore > 0 THEN @
                                                ELSE @ + 1]
  /\ UNCHANGED <<today, dbVars>>

\* Update user points in profile: the read.
QZ_Read(s, fail) ==
  /\ sess[s].pc = "qz_read"
  /\ sess' = [sess EXCEPT ![s] = [@ EXCEPT !.pc = "qz_write",
                                           !.readPoints = SelectPoints(fail)]]
  /\ UNCHANGED <<today, dbVars, ghost>>

\* The write of newPoints; its error is only logged. Then trackActivity('quiz').
QZ_Write(s, fail) ==
  /\ sess[s].pc = "qz_write"
  /\ IF fail
     THEN /\ ghost' = [ghost EXCEPT !.quizTracks = @ + 1]
          /\ UNCHANGED profile
     ELSE /\ profile' = PointsWritten(sess[s].readPoints, sess[s].currentScore)
          /\ ghost' = [ghost EXCEPT
               !.credited = IF profile.exists THEN @ + sess[s].currentScore ELSE @,
               !.quizCredits = IF profile.exists THEN @ + 1 ELSE @,
               !.quizTracks = @ + 1]
  /\ sess' = [sess EXCEPT ![s] = EnterTrack(@, "quiz")]
  /\ UNCHANGED <<today, daily_logins, achievement_progress>>

QuizStep(s, fail) ==
  \/ QZ_Insert(s, fail)
  \/ QZ_Read(s, fail)
  \/ QZ_Write(s, fail)

(***************************************************************************)
(* The whole subsystem: every operation, from any session, in any order    *)
(***************************************************************************)
\* Progress rows the user can have before the first step of the model: none, or a
\* count next to the threshold (a claimed row below its threshold is what a failed
\* progress read leaves behind once the count has climbed again).
InitQuizProgress ==
  {NoRow, Row(QuizThreshold - 2, FALSE), Row(QuizThreshold - 1, FALSE),
   Row(QuizThreshold - 1, TRUE)}
InitGameProgress == {NoRow, Row(GameThreshold - 1, FALSE)}

\* A user one login short of the 30-day streak, with any of these progress rows.
InitTrack ==
  /\ today = 0
  /\ profile = History(StreakBonusDay - 1, today - 1).profile
  /\ daily_logins = History(StreakBonusDay - 1, today - 1).daily_logins
  /\ \E q \in InitQuizProgress, g \in InitGameProgress :
       achievement_progress = [t \in ActivityTypes |-> IF t = "quiz" THEN q ELSE g]
  /\ sess = InitSess
  /\ ghost = InitGhost(profile)

\* trackActivity calls only, from any session, with store failures.
NextTrack ==
  \/ \E s \in Sessions, activityType \in ActivityTypes : TA_Begin(s, activityType, MaxOps)
  \/ \E s \in Sessions, fail \in BOOLEAN : TrackStep(s, fail)

SpecTrack == InitTrack /\ [][NextTrack]_vars

\* trackActivity calls only, none of whose store requests fails: one call more
\* than there are sessions, so that a session can run two calls while another
\* session's call is in flight.
NextTrackRace ==
  \/ \E s \in Sessions, activityType \in ActivityTypes :
       TA_Begin(s, activityType, MaxOps + 1)
  \/ \E s \in Sessions : TrackStep(s, FALSE)

SpecTrackRace == InitTrack /\ [][NextTrackRace]_vars

\* The same calls from the progress rows whose bonus is not claimed yet.
InitUnclaimed ==
  /\ InitTrack
  /\ \A t \in ActivityTypes : ~achievement_progress[t].bonus_claimed

SpecClaimRace == InitUnclaimed /\ [][NextTrackRace]_vars

\* A user one login short of the 30-day streak and one quiz short of the quiz bonus.
Init ==
  /\ today = 0
  /\ profile = History(StreakBonusDay - 1, today - 1).profile
  /\ daily_logins = History(StreakBonusDay - 1, today - 1).daily_logins
  /\ achievement_progress =
       [t \in ActivityTypes |-> IF t = "quiz" THEN Row(QuizThreshold - 1, FALSE) ELSE NoRow]
  /\ sess = InitSess
  /\ ghost = InitGhost(profile)

Next ==
  \/ Tick
  \/ \E s \in Sessions : DL_Begin(s, MaxOps)
  \/ \E s \in Sessions : LoginStep(s) \/ DL_Fail(s)
  \/ \E s \in Sessions, activityType \in ActivityTypes : TA_Begin(s, activityType, MaxOps)
  \/ \E s \in Sessions, score \in Scores : QZ_Begin(s, score, MaxOps)
  \/ \E s \in Sessions, fail \in BOOLEAN : TrackStep(s, fail) \/ QuizStep(s, fail)

Spec == Init /\ [][Next]_vars

\* The same operations when no store request fails: only the interleaving of the
\* sessions' round trips is left to chance.
NextRace ==
  \/ Tick
  \/ \E s \in Sessions : DL_Begin(s, MaxOps)
  \/ \E s \in Sessions : LoginStep(s)
  \/ \E s \in Sessions, activityType \in ActivityTypes : TA_Begin(s, activityType, MaxOps)
  \/ \E s \in Sessions, score \in Scores : QZ_Begin(s, score, MaxOps)
  \/ \E s \in Sessions : TrackStep(s, FALSE) \/ QuizStep(s, FALSE)

SpecRace == Init /\ [][NextRace]_vars

\* One session that runs the three handlers one after the other while any of their
\* store requests may fail.
NextOneSession ==
  \/ Tick
  \/ DL_Begin(1, MaxOps)
  \/ LoginStep(1) \/ DL_Fail(1)
  \/ \E activityType \in ActivityTypes : TA_Begin(1, activityType, MaxOps)
  \/ \E score \in Scores : QZ_Begin(1, score, MaxOps)
  \/ \E fail \in BOOLEAN : TrackStep(1, fail) \/ QuizStep(1, fail)

SpecOneSession == Init /\ [][NextOneSession]_vars

\* One session, one quiz completion after the other, with two store failures: the
\* bonus_claimed write of the first call, and the progress read of the second.
HazardFails ==
  \/ sess[1].ops = 1 /\ sess[1].pc = "ta_claim"
  \/ sess[1].ops = 2 /\ sess[1].pc = "ta_read"

NextHazard ==
  \/ TA_Begin(1, "quiz", MaxCalls)
  \/ TrackStep(1, HazardFails)

SpecHazard == Init /\ [][NextHazard]_vars

\* One Quiz page with a started quiz on its last question and a few seconds left:
\* the slots hold the invocations of handleSubmitQuiz that run in this page, the
\* page's own state is that of slot 1. No store request fails.
InitSubmit ==
  /\ today = 0
  /\ profile = History(StreakBonusDay - 1, today - 1).profile
  /\ daily_logins = History(StreakBonusDay - 1, today - 1).daily_logins
  /\ \E q \in InitQuizProgress :
       achievement_progress = [t \in ActivityTypes |-> IF t = "quiz" THEN q ELSE NoRow]
  /\ \E left \in 1..MaxSeconds :
       sess = [s \in Sessions |->
                 [InitSess[s] EXCEPT !.page = 1,
                                     !.selectedQuiz = (s = 1),
                                     !.timeRemaining = IF s = 1 THEN left ELSE 0]]
  /\ ghost = InitGhost(profile)

NextSubmit ==
  \/ \E s \in Sessions, score \in Scores : TimerTick(s, score, MaxOps)
  \/ \E s \in Sessions, score \in Scores : SubmitClicked(s, score, MaxOps)
  \/ \E s \in Sessions : QuizStep(s, FALSE) \/ TrackStep(s, FALSE)

SpecSubmit == InitSubmit /\ [][NextSubmit]_vars

\* One session, one quiz completion after the other, no store failure; the user has
\* no quiz progress row yet.
InitQuizSeq ==
  /\ today = 0
  /\ \E s \in {0, StreakBonusDay - 1} :
       /\ profile = History(s, today - 1).profile
       /\ daily_logins = History(s, today - 1).daily_logins
  /\ achievement_progress = [t \in ActivityTypes |-> NoRow]
  /\ sess = InitSess
  /\ ghost = InitGhost(profile)

NextQuizSeq ==
  \/ TA_Begin(1, "quiz", MaxCalls)
  \/ TrackStep(1, FALSE)

SpecQuizSeq == InitQuizSeq /\ [][NextQuizSeq]_vars

(***************************************************************************)
(* Properties                                                              *)
(***************************************************************************)
Points == Coalesce(profile.points, 0)
AllIdle == \A s \in Sessions : sess[s].pc = "idle"

\* C1. Login idempotency: a handle_daily_login call made on a date that already has
\* a daily_logins row changes no row of the store in any of its steps, and unless
\* the store is unavailable it returns points_earned = 0, is_new_login = false and
\* streak_count = the profile's current streak.
C1_LoginIdempotent ==
  [][\A s \in Sessions :
       (sess[s].pc \in LoginPcs /\ sess[s].startExisting /\ sess'[s] # sess[s])
         => /\ UNCHANGED <<dbVars, ghost>>
            /\ sess'[s].pc = "idle" =>
                 \/ sess'[s].result.status = "unavailable"
                 \/ sess'[s].result =
                      [status |-> "ok", at |-> "", points_earned |-> 0,
                       streak_count |-> profile.current_streak[1],
                       is_new_login |-> FALSE]]_vars

\* After a rewarded login, a second call on the same date has returned the
\* already-logged-in result.
C1_Witness ==
  \E s \in Sessions :
    /\ sess[s].pc = "idle" /\ sess[s].ops > 0
    /\ sess[s].result.status = "ok" /\ ~sess[s].result.is_new_login
    /\ sess[s].result.points_earned = 0
    /\ sess[s].result.streak_count = profile.current_streak[1]
    /\ daily_logins[today] = 1 /\ ghost.loginCommits[today] = 1

\* C2. No double credit under concurrency: for every date, whatever the interleaving
\* of the sessions' calls, at most one call credits the daily reward (and sets the
\* streak), and the profile's points are the initial points plus those rewards.
C2_NoDoubleCredit ==
  /\ \A d \in Days : ghost.loginCommits[d] <= 1
  /\ Points = ghost.points0 + ghost.credited

\* Two calls raced for the same date: one was rewarded, the other hit the
\* uniqueness constraint.
C2_Witness ==
  \E s, o \in Sessions :
    /\ s # o
    /\ sess[s].result.status = "conflict"
    /\ sess[o].result.status = "ok" /\ sess[o].result.is_new_login
    /\ ghost.loginCommits[today] = 1

\* C3. Streak transition: a new login stores current_streak = the streak it read + 1
\* when the last_login_date it read is the day before its date, and 1 otherwise (no
\* last_login_date, a gap, a last_login_date in the future); it returns the stored
\* streak.
C3_StreakTransition ==
  [][\A s \in Sessions :
       (sess[s].pc = "dl_update" /\ sess'[s].pc = "idle"
          /\ sess'[s].result.status = "ok")
         => LET cp == sess[s].current_profile
                expected ==
                  IF cp.last_login_date # Null
                       /\ cp.last_login_date[1] = sess[s].today_date - 1
                  THEN cp.current_streak[1] + 1
                  ELSE 1
            IN /\ profile'.current_streak = <<expected>>
               /\ profile'.last_login_date = <<sess[s].today_date>>
               /\ sess'[s].result.streak_count = expected
               /\ sess'[s].result.is_new_login]_vars

\* A streak of 5 that ended yesterday has been continued to 6.
C3_Witness ==
  \E s \in Sessions :
    /\ sess[s].result.status = "ok" /\ sess[s].result.is_new_login
    /\ sess[s].result.streak_count = 6
    /\ profile.current_streak = <<6>>

\* A call read a last_login_date later than its own date and reset the streak to 1.
C3_WitnessFuture ==
  \E s \in Sessions :
    /\ sess[s].pc = "dl_insert"
    /\ sess[s].current_profile.last_login_date # Null
    /\ sess[s].current_profile.last_login_date[1] > sess[s].today_date
    /\ sess[s].new_streak = 1

\* C4. Reward amount: a new login returns points_earned = 50 when the streak it
\* stores is 30 and 10 for every other streak (31 included), and the profile's
\* points grow by exactly points_earned.
C4_RewardAmount ==
  [][\A s \in Sessions :
       (sess[s].pc = "dl_update" /\ sess'[s].pc = "idle"
          /\ sess'[s].result.status = "ok")
         => /\ sess'[s].result.points_earned =
                 (IF profile'.current_streak = <<30>> THEN 50 ELSE 10)
            /\ profile'.points = <<profile.points[1] + sess'[s].result.points_earned>>]_vars

\* The login that made the streak 30 earned 50, and the login of the next day made
\* it 31 and earned 10.
C4_Witness ==
  \E s \in Sessions :
    /\ sess[s].result.status = "ok" /\ sess[s].result.is_new_login
    /\ sess[s].result.streak_count = 31 /\ sess[s].result.points_earned = 10
    /\ ghost.credited = 60

\* C10. Login atomicity: at every moment, failed calls included, a date has a
\* daily_logins row exactly when one login call updated the profile for that date.
C10_LoginAtomic ==
  \A d \in Days : daily_logins[d] = ghost.loginCommits[d]

\* A call failed after its INSERT, before its UPDATE, and left no row.
C10_Witness ==
  \E s \in Sessions :
    /\ sess[s].result.status = "unavailable" /\ sess[s].result.at = "dl_update"
    /\ \A d \in Days : daily_logins[d] = 0

\* C5. Thirty sequential quiz activities: after 30 failure-free trackActivity('quiz')
\* calls of a user who had no quiz progress row, current_count = 30, bonus_claimed =
\* true, and the calls credited the profile's points with exactly one bonus of 50;
\* before the 30th call nothing was credited.
C5_ThirtyQuizzes ==
  sess[1].pc = "idle" =>
    /\ sess[1].ops = 30 =>
         /\ achievement_progress["quiz"] =
              [exists |-> TRUE, current_count |-> 30, bonus_claimed |-> TRUE]
         /\ ghost.bonusAwards["quiz"] = 1
         /\ Points = ghost.points0 + 50
    /\ sess[1].ops < 30 =>
         /\ achievement_progress["quiz"].current_count = sess[1].ops
         /\ ~achievement_progress["quiz"].bonus_claimed
         /\ Points = ghost.points0

\* The 30th call has returned.
C5_Witness ==
  /\ sess[1].pc = "idle" /\ sess[1].ops = 30
  /\ achievement_progress["quiz"].current_count = 30
  /\ achievement_progress["quiz"].bonus_claimed

\* C6. One-time achievement bonus: for every achievement type, whatever the
\* interleaving of the sessions' trackActivity calls, the milestone bonus is credited
\* at most once.
C6_BonusAtMostOnce ==
  \A t \in ActivityTypes : ghost.bonusAwards[t] <= 1

\* C7. Claimed flag gates the bonus: a trackActivity call that started when
\* bonus_claimed was true for its type computes no bonus and never reaches the steps
\* that credit one, whatever the count it read or wrote.
C7_ClaimedGatesBonus ==
  \A s \in Sessions :
    sess[s].startClaimed =>
      /\ sess[s].bonusPoints = 0
      /\ sess[s].pc \notin {"ta_profile", "ta_points", "ta_claim"}

\* A call that started with the bonus claimed has written the threshold count and
\* gone on without a bonus.
C7_Witness ==
  \E s \in Sessions :
    /\ sess[s].startClaimed /\ sess[s].pc = "ta_fetch"
    /\ sess[s].activityType = "quiz" /\ sess[s].newCount = QuizThreshold
    /\ achievement_progress["quiz"].current_count = QuizThreshold

\* C8. Points ledger loses no credit: whatever the interleaving of the credit
\* operations, once every operation has completed the profile's points are the
\* initial points plus the sum of the credited deltas.
C8_NoLostCredit ==
  AllIdle => Points = ghost.points0 + ghost.credited

\* C9. Points never decrease: whatever the interleaving, no step of any operation
\* lowers the profile's points.
C9_PointsNeverDecrease ==
  [][Coalesce(profile'.points, 0) >= Coalesce(profile.points, 0)]_vars

\* C11. Conflict recovery: a handle_daily_login call whose INSERT hits the
\* UNIQUE(user_id, login_date) constraint returns the already-logged-in result
\* (points_earned = 0, is_new_login = false, streak_count = the current streak), not
\* an error.
C11_ConflictRecovered ==
  [][\A s \in Sessions :
       (sess[s].pc = "dl_insert" /\ sess'[s].pc = "idle"
          /\ sess'[s].result.status # "unavailable")
         => sess'[s].result =
              [status |-> "ok", at |-> "", points_earned |-> 0,
               streak_count |-> Coalesce(profile.current_streak, 0),
               is_new_login |-> FALSE]]_vars

\* C14. At most one daily_logins row per (user_id, login_date), in every reachable
\* state, whatever the interleaving of the sessions' calls.
C14_OneRecordPerDate ==
  \A d \in AllDates : daily_logins[d] <= 1

\* Two calls that both passed the count check have inserted for the same date: the
\* first has committed its row, the second is about to hit the constraint.
C14_Witness ==
  \E s \in Sessions :
    /\ sess[s].pc = "dl_insert" /\ sess[s].today_date = today
    /\ daily_logins[today] = 1 /\ ghost.loginCommits[today] = 1

\* C12. Missing profile is fatal: while the user has no profiles row, every
\* handle_daily_login call that has returned has returned an error (no reward
\* result from defaulted values), and no daily_logins row has been created.
C12_MissingProfileFatal ==
  ~profile.exists =>
    /\ \A s \in Sessions : sess[s].result.status # "ok"
    /\ \A d \in AllDates : daily_logins[d] = 0

\* C13. One-time streak bonus: over any sequence of handle_daily_login calls on any
\* sequence of dates, the 40-point streak bonus is credited at most once.
C13_StreakBonusOnce ==
  ghost.streakBonuses <= 1

\* C15. bonus_claimed never reverts: for every achievement type, no step of any
\* trackActivity call (the count upsert included), in any interleaving, takes
\* bonus_claimed from true back to false.
C15_ClaimedNeverReverts ==
  [][\A t \in ActivityTypes :
       achievement_progress[t].bonus_claimed => achievement_progress'[t].bonus_claimed]_vars

\* The bonus was claimed at the threshold, and a later call has upserted the next
\* count on the claimed row.
C15_Witness ==
  /\ achievement_progress["quiz"] = Row(QuizThreshold + 1, TRUE)
  /\ ghost.bonusAwards["quiz"] = 1

\* C16. current_count is monotonically non-decreasing: for every achievement type,
\* no step of any trackActivity call, in any interleaving across sessions, lowers
\* current_count.
C16_CountNeverDecreases ==
  [][\A t \in ActivityTypes :
       achievement_progress'[t].current_count >= achievement_progress[t].current_count]_vars

\* C17. Bonus eligibility is exact equality: a trackActivity call goes on to credit
\* a bonus exactly when the count it computed is the threshold of its type (30 for
\* quiz, 50 for game) and the row it read was not claimed; the bonus is 50, and only
\* such a call credits one. A call that read a count at or past the threshold
\* credits nothing, claimed or not.
C17_ExactEligibility ==
  [][\A s \in Sessions :
       LET r == sess[s]
           eligible ==
             /\ \/ r.activityType = "quiz" /\ r.newCount = 30
                \/ r.activityType = "game" /\ r.newCount = 50
             /\ r.currentProgress = Null \/ ~r.currentProgress[1].bonus_claimed
       IN /\ (r.pc = "ta_upsert" /\ sess'[s].pc # "idle" /\ sess'[s] # r)
               => /\ sess'[s].pc = (IF eligible THEN "ta_profile" ELSE "ta_fetch")
                  /\ sess'[s].bonusPoints = (IF eligible THEN 50 ELSE 0)
          /\ (r.pc = "ta_points" /\ sess'[s].pc = "ta_claim")
               => /\ eligible
                  /\ ghost'.bonusAwards[r.activityType] = ghost.bonusAwards[r.activityType] + 1
                  /\ ghost'.credited = ghost.credited + 50
                  /\ profile'.points = Some(Coalesce(r.readPoints, 0) + 50)
          /\ (r.pc # "ta_points" \/ sess'[s] = r)
               => \/ ghost'.bonusAwards = ghost.bonusAwards
                  \/ \E o \in Sessions \ {s} : sess[o].pc = "ta_points" /\ sess'[o] # sess[o]]_vars

\* The count reached the threshold with no bonus credited, and a later call that
\* read the unclaimed row at the threshold has gone on without a bonus.
C17_Witness ==
  \E s \in Sessions :
    /\ sess[s].pc = "ta_fetch" /\ sess[s].activityType = "quiz"
    /\ sess[s].currentProgress = Some(Row(QuizThreshold, FALSE))
    /\ sess[s].newCount = QuizThreshold + 1 /\ sess[s].bonusPoints = 0
    /\ ghost.bonusAwards["quiz"] = 0

\* C19. Reward banner: a handleDailyLogin call shows the daily-reward banner exactly
\* when the result it received has is_new_login = true and points_earned > 0 (the
\* banner names points_earned, and the call created the login record); a repeated
\* same-day login and a failed call show none.
C19_RewardBanner ==
  [][\A s \in Sessions :
       (sess[s].pc \in LoginPcs /\ sess'[s].pc = "idle")
         => LET res == sess'[s].result
                shown == sess'[s].banner # <<>>
            IN /\ shown <=> (res.status = "ok" /\ res.is_new_login /\ res.points_earned > 0)
               /\ shown => sess'[s].banner = <<res.points_earned>>
               /\ shown => daily_logins'[sess[s].today_date] = daily_logins[sess[s].today_date] + 1
               /\ sess[s].startExisting => ~shown
               /\ res.status \in {"unavailable", "conflict"} => ~shown]_vars

\* One session was rewarded with the streak bonus and shows the banner; another
\* session's login of the same day has returned and shows none.
C19_Witness ==
  \E s, o \in Sessions :
    /\ sess[s].pc = "idle" /\ sess[s].banner = <<50>> /\ sess[s].result.points_earned = 50
    /\ sess[o].pc = "idle" /\ sess[o].result.status = "ok" /\ ~sess[o].result.is_new_login
    /\ sess[o].banner = <<>>

\* C20. Failures are contained: whatever store request fails in handleDailyLogin,
\* trackActivity or handleSubmitQuiz, no exception leaves the handler: the call
\* returns to its caller.
C20_FailuresContained ==
  \A s \in Sessions : ~sess[s].raised

\* A login call failed in the store and a trackActivity call failed on its
\* bonus_claimed write (the bonus is credited, the row unclaimed); both have
\* returned.
C20_Witness ==
  /\ AllIdle
  /\ \E s \in Sessions : sess[s].result.status = "unavailable"
  /\ achievement_progress["quiz"] = Row(QuizThreshold, FALSE)
  /\ ghost.bonusAwards["quiz"] = 1

\* C18. Once per session: a client session invokes handleDailyLogin at most once
\* while its user stays signed in, whatever re-renders and later changes of its
\* auth state follow the first invocation.
C18_OncePerSession ==
  \A s \in Sessions : sess[s].ops <= 1

\* C21. Store failures are surfaced: what handleDailyLogin or trackActivity hands
\* back to its caller tells a call during which the store failed from a call that
\* succeeded: a failed call returns undefined, a successful one a value.
C21_FailuresSurfaced ==
  \A s \in Sessions :
    (sess[s].pc = "idle" /\ sess[s].returned.by \in {"handleDailyLogin", "trackActivity"})
      => (sess[s].failed <=> sess[s].returned.value = Null)

\* C22. Read-through refresh: when a trackActivity call that has written its count
\* returns, whatever its outcome, the achievementProgress state of the hook is the
\* store's rows as they are after the call's last write, so it shows the count the
\* call wrote.
C22_ReadThroughRefresh ==
  [][\A s \in Sessions :
       (sess[s].pc \in {"ta_profile", "ta_points", "ta_claim", "ta_fetch"}
          /\ sess'[s].pc = "idle")
         => /\ sess'[s].achievementProgress = achievement_progress'
            /\ sess'[s].achievementProgress[sess[s].activityType].current_count
                 = sess[s].newCount]_vars

\* C23. Known bonus-claim hazard: a trackActivity call that credits the bonus and
\* fails before it sets bonus_claimed leaves the row unclaimed at the threshold, and
\* there is a later sequence of calls for the same type that credits the bonus a
\* second time: a call whose progress read fails, followed by 29 calls that succeed.
C23_ClaimHazard ==
  sess[1].pc = "idle" =>
    /\ sess[1].ops = 1 =>
         /\ achievement_progress["quiz"] = Row(30, FALSE)
         /\ ghost.bonusAwards["quiz"] = 1
         /\ Points = ghost.points0 + 50
    /\ (sess[1].ops >= 1 /\ sess[1].ops <= 30) =>
         /\ ghost.bonusAwards["quiz"] = 1
         /\ ~achievement_progress["quiz"].bonus_claimed
    /\ sess[1].ops >= 31 =>
         /\ ghost.bonusAwards["quiz"] = 2
         /\ Points = ghost.points0 + 100

\* The call that credits the bonus for the second time has returned.
C23_Witness ==
  /\ sess[1].pc = "idle" /\ sess[1].ops = 31
  /\ ghost.bonusAwards["quiz"] = 2
  /\ achievement_progress["quiz"] = Row(30, TRUE)

\* The consecutive days ending at d that each have a daily_logins row.
RECURSIVE RunEndingAt(_)
RunEndingAt(d) ==
  IF d < FirstDay \/ daily_logins[d] = 0 THEN 0 ELSE 1 + RunEndingAt(d - 1)

\* C24. Streak meaning: for a user who started with current_streak = 0, no
\* last_login_date and no daily_logins row, after any sequence of handle_daily_login
\* calls made one after the other on non-decreasing dates, current_streak is the
\* number of consecutive days ending at last_login_date that each have a row.
C24_StreakMeaning ==
  profile.current_streak =
    Some(IF profile.last_login_date = Null THEN 0
         ELSE RunEndingAt(profile.last_login_date[1]))

\* The user built a streak of 12 days, missed a day, and is 3 days into the next.
C24_Witness ==
  /\ profile.current_streak = Some(3)
  /\ profile.last_login_date = Some(today)
  /\ RunEndingAt(today - 4) = 12
  /\ daily_logins[today - 3] = 0

\* C25. No lost activity increments: for every achievement type, once the
\* trackActivity calls of the sessions have completed, all successfully and in
\* whatever interleaving, current_count is its initial value plus the number of
\* calls made for the type.
C25_NoLostIncrement ==
  AllIdle =>
    \A t \in ActivityTypes :
      achievement_progress[t].current_count = ghost.count0[t] + ghost.tracked[t]

\* C26. Failed points read does not clobber the ledger: when the read of the
\* profile's points in the bonus step of trackActivity returned no data (the
\* request failed or there is no profile row), the call's points write leaves
\* the profile's points as they were.
C26_FailedReadKeepsPoints ==
  [][\A s \in Sessions :
       (sess[s].pc = "ta_points" /\ (sess[s].failed \/ ~profile.exists))
         => profile'.points = profile.points]_vars

\* C27. Failed progress read does not reset the counter: when the initial read
\* of trackActivity failed while the pair's row exists with a count above 0,
\* the call's upsert does not put current_count = 1 in place of that count.
C27_FailedReadKeepsCount ==
  [][\A s \in Sessions :
       LET t == sess[s].activityType
       IN (/\ sess[s].pc = "ta_upsert"
           /\ sess[s].failed
           /\ achievement_progress[t].exists
           /\ achievement_progress[t].current_count > 0)
            => (achievement_progress'[t].current_count = 1
                  => achievement_progress[t].current_count = 1)]_vars

\* The count at which an achievement type's bonus is due.
Threshold(t) == IF t = "quiz" THEN QuizThreshold ELSE GameThreshold

\* C28. Claimed implies threshold reached: in every reachable state, under any
\* interleaving of trackActivity calls, a row with bonus_claimed = true has
\* current_count >= its type's threshold (30 for quiz, 50 for game).
C28_ClaimedAtThreshold ==
  \A t \in ActivityTypes :
    achievement_progress[t].bonus_claimed
      => achievement_progress[t].current_count >= Threshold(t)

\* C29. Caller can only log in as itself: no step of a handle_daily_login call
\* whose caller is not the user named by user_id_param adds a daily_logins row
\* for that user or changes the user's points, current_streak or
\* last_login_date.
C29_OnlyAsSelf ==
  [][\A s \in Sessions :
       (sess[s].pc \in LoginPcs /\ sess[s].caller # "self" /\ sess'[s] # sess[s])
         => (daily_logins' = daily_logins /\ profile' = profile)]_vars

\* C30. A quiz attempt is submitted at most once: for a started quiz, whatever
\* the order in which the timer's expiry and the Submit button fire,
\* handleSubmitQuiz inserts at most one quiz_attempts row, credits the score
\* to points at most once and calls trackActivity('quiz') at most once.
C30_SubmittedOnce ==
  /\ ghost.quizAttempts <= 1
  /\ ghost.quizCredits <= 1
  /\ ghost.quizTracks <= 1

=============================================================================
